---- MODULE Spec2Model ----
(***************************************************************************)
(* State-machine model of tg-secret-santa-bot: the draft() matcher of      *)
(* utilities.py, the SecretSanta record of santa.py and the update         *)
(* handlers of main.py working on dispatcher.chat_data / bot_data.         *)
(***************************************************************************)
EXTENDS Integers, Sequences, FiniteSets, TLC

\* ------------------------------------------------------------------ bounds
NUsers == 3
NRooms == 1
MaxMsgId == 1
MaxDraftLen == 3
MaxRaffles == 2
MaxCallLen == 4
MaxTime == 4
MaxNotices == 2
\* ------------------------------------------------------- program constants
InvalidPicksThreshold == 300
\* Time.WEEK_4, in units of the clock
WEEK_4 == 2
\* MWT(timeout=60 * 60), in units of the clock
MwtTimeout == 2
\* config.santa.min_participants and config.santa.max_participants
MinParticipants == 2
MaxParticipants == 3
\* config.santa.timeout, in the unit of the clock
Timeout == 1

Users == 1..NUsers
Rooms == 1..NRooms
\* the chat id of the supergroup a group is migrated to
Supergroup(r) == r + NRooms
\* every chat with an entry in dispatcher.chat_data: the groups and their supergroups
Chats == 1..(2 * NRooms)
\* utilities.now(): 0 stands for None
Times == 1..MaxTime
MsgIds == 1..MaxMsgId
DraftIds == 1..MaxDraftLen

VARIABLES
    dr,               \* the locals of one call of utilities.draft
    chat_data,        \* dispatcher.chat_data: per chat, the active santa and the muted mark
    recently_started, \* bot_data["recently_closed_santas"][chat_id][santa_message_id]
    recently_left,    \* bot_data["recently_left"]: per chat, when the bot left it (0: no entry)
    start_button,     \* per chat: a "start match" button has been rendered there
    hung,             \* the dispatcher thread is inside a call that never returns
    faults,           \* the group transport may fail and the bot be muted or removed
    mwt,              \* MWT's cache of get_admin_ids, and what its last call fetched and returned
    max_participants, \* config.santa.max_participants (0: not set)
    now,              \* the clock
    migrated,         \* the groups that have been migrated to their supergroup
    notices,          \* per chat: expiry notices put in place of its current announcement
    job,              \* close_old_secret_santas in the job queue's thread
    hd,               \* the handler the dispatcher thread is in the middle of
    last              \* what the last handler run was given and what it sent

\* what the handlers of the updates of a chat and of its users do not write
env == <<faults, mwt, max_participants, now, migrated, job, hd>>
botvars == <<chat_data, recently_started, recently_left, start_button, hung, env, notices, last>>
vars == <<dr, chat_data, recently_started, recently_left, start_button, hung, env, notices, last>>

\* ------------------------------------------------------------ helpers
Range(s) == {s[k] : k \in DOMAIN s}

Min(a, b) == IF a < b THEN a ELSE b

\* the ascending list of a set of integers
RECURSIVE SortedSeq(_)
SortedSeq(S) ==
    IF S = {} THEN <<>>
    ELSE LET m == CHOOSE x \in S : \A y \in S : x <= y
         IN  <<m>> \o SortedSeq(S \ {m})

\* list.sort() of a list of distinct integers
Sort(s) == SortedSeq(Range(s))

\* list.remove(x): drops the first occurrence of x
RemoveFirst(s, x) ==
    LET k == CHOOSE j \in DOMAIN s : s[j] = x /\ \A h \in 1..(j - 1) : s[h] # x
    IN  SubSeq(s, 1, k - 1) \o SubSeq(s, k + 1, Len(s))

\* every list of distinct ids of length n
DistinctSeqs(S, n) == {s \in [1..n -> S] : \A a, b \in 1..n : a # b => s[a] # s[b]}

\* ------------------------------------------------- utilities.draft, stepwise
\* pc: "call" -> "raffle" -> "item" -> ("pick" -> "loop")* -> "return"
DraftInputs == UNION {DistinctSeqs(DraftIds, n) : n \in 0..MaxDraftLen}

DraftCall(items) ==
    [pc |-> "call", input |-> items, items |-> items, i |-> 0, yet |-> <<>>,
     pairs |-> <<>>, picked |-> 0, invalid |-> 0, raffles |-> 0]


\* items_list.sort()
DraftSort ==
    /\ dr.pc = "call"
    /\ dr' = [dr EXCEPT !.pc = "raffle", !.items = Sort(dr.items)]
    /\ UNCHANGED botvars

\* a raffle that keeps the count of invalid picks of the raffle before it
DraftRaffle_KeepInvalid ==
    /\ dr.pc = "raffle"
    /\ dr' = [dr EXCEPT !.pc = "item", !.i = 1, !.yet = dr.items,
                        !.pairs = <<>>, !.picked = 0,
                        !.raffles = Min(dr.raffles + 1, MaxRaffles)]
    /\ UNCHANGED botvars

\* one turn of `while retry_raffle`: reset the raffle's locals
DraftRaffle ==
    /\ dr.pc = "raffle"
    /\ dr' = [dr EXCEPT !.pc = "item", !.i = 1, !.yet = dr.items,
                        !.pairs = <<>>, !.picked = 0, !.invalid = 0,
                        !.raffles = Min(dr.raffles + 1, MaxRaffles)]
    /\ UNCHANGED botvars

\* a return that does not wait for the for loop to run out of items
DraftReturn_Early ==
    /\ dr.pc = "item"
    /\ dr' = [dr EXCEPT !.pc = "return"]
    /\ UNCHANGED botvars

\* the for loop has run out of items: `if not retry_raffle: return result_pairs`
DraftReturn ==
    /\ dr.pc = "item"
    /\ dr.i > Len(dr.items)
    /\ dr' = [dr EXCEPT !.pc = "return"]
    /\ UNCHANGED botvars

\* picked_item = random.choice(yet_to_match), then the two raffle-invalidating tests
DraftPick(x) ==
    /\ dr.pc = "item"
    /\ dr.i <= Len(dr.items)
    /\ x \in Range(dr.yet)
    /\ IF x = dr.items[dr.i] /\ Len(dr.yet) = 1
         THEN dr' = [dr EXCEPT !.pc = "raffle", !.picked = x]
       ELSE IF dr.invalid > InvalidPicksThreshold
         THEN dr' = [dr EXCEPT !.pc = "raffle", !.picked = x]
       ELSE dr' = [dr EXCEPT !.pc = "loop", !.picked = x]
    /\ UNCHANGED botvars

\* `while item == picked_item`: count the invalid pick and pick again
DraftRepick(x) ==
    /\ dr.pc = "loop"
    /\ dr.picked = dr.items[dr.i]
    /\ x \in Range(dr.yet)
    /\ dr' = [dr EXCEPT !.picked = x,
                        !.invalid = Min(dr.invalid + 1, InvalidPicksThreshold + 1)]
    /\ UNCHANGED botvars

\* a match that leaves the pick in yet_to_match
DraftMatch_NoRemove ==
    /\ dr.pc = "loop"
    /\ dr.picked # dr.items[dr.i]
    /\ dr' = [dr EXCEPT !.pc = "item", !.i = dr.i + 1,
                        !.pairs = Append(dr.pairs, <<dr.items[dr.i], dr.picked>>)]
    /\ UNCHANGED botvars

\* the while loop is left: remove the pick, append the pair, next item
DraftMatch ==
    /\ dr.pc = "loop"
    /\ dr.picked # dr.items[dr.i]
    /\ dr' = [dr EXCEPT !.pc = "item", !.i = dr.i + 1,
                        !.yet = RemoveFirst(dr.yet, dr.picked),
                        !.pairs = Append(dr.pairs, <<dr.items[dr.i], dr.picked>>)]
    /\ UNCHANGED botvars

\* --------------------------------------- utilities.draft, as a set of results
\* every list of pairs one raffle over the sorted items can end with: item i
\* gets any element of yet_to_match other than itself (the while loop ends only
\* on such a pick), and a raffle whose last item finds only itself left yields
\* nothing (it is repeated)
RECURSIVE RaffleResults(_, _, _, _)
RaffleResults(items, i, yet, pairs) ==
    IF i > Len(items) THEN {pairs}
    ELSE UNION {RaffleResults(items, i + 1, RemoveFirst(yet, x),
                              Append(pairs, <<items[i], x>>))
                  : x \in Range(yet) \ {items[i]}}

\* the values draft(items_list) can return; empty when it can never return
DraftResults(items) == RaffleResults(Sort(items), 1, Sort(items), <<>>)

\* ------------------------------------------------------------ santa.py
\* message ids are positive; 0 stands for None (no message bound)
\* SecretSanta.__init__: the record behind a SecretSanta (its _santa_dict);
\* `participants if participants else {}`
SecretSanta(chat_id, user_id, santa_message_id, participants, created_on, updated_on) ==
    [chat_id |-> chat_id,
     user_id |-> user_id,
     santa_message_id |-> santa_message_id,
     participants |-> IF participants # <<>> THEN participants ELSE <<>>,
     created_on |-> IF created_on # 0 THEN created_on ELSE now,
     updated_on |-> IF updated_on # 0 THEN updated_on ELSE now,
     started |-> FALSE]

\* SecretSanta.from_dict: a new record built from the stored one
FromDict(santa_dict) ==
    SecretSanta(santa_dict.chat_id, santa_dict.user_id,
                santa_dict.santa_message_id, santa_dict.participants,
                santa_dict.created_on, santa_dict.updated_on)

\* a from_dict that copies the participants
SharesParticipants_Copied(santa_dict) == FALSE

\* from_dict hands the stored participants dict itself to the new object
\* unless it is empty: what a handler then writes into santa.participants is
\* written into chat_data at once
SharesParticipants(santa_dict) == santa_dict.participants # <<>>

\* SecretSanta.creator_id compared with the user of the update
IsCreator_Anyone(santa, u) == TRUE

IsCreator(santa, u) == santa.user_id = u

GetParticipantsCount(santa) == Cardinality(DOMAIN santa.participants)

\* a test that finds everybody among the participants
IsParticipant_Always(santa, u) == TRUE

\* SecretSanta.is_participant
IsParticipant(santa, u) == u \in DOMAIN santa.participants

\* an add that builds the participants anew
Add_ForgetsOthers(santa, u) ==
    [santa EXCEPT !.participants =
        [x \in {u} |-> [name |-> u, match_message_id |-> 0, join_message_id |-> 0]]]

\* SecretSanta.add: the user's entry is written anew
Add(santa, u) ==
    [santa EXCEPT !.participants =
        [x \in (DOMAIN @) \cup {u} |->
            IF x = u THEN [name |-> u, match_message_id |-> 0, join_message_id |-> 0]
            ELSE @[x]]]

\* a remove that keeps the user's entry
Remove_KeepsEntry(santa, u) == santa

\* SecretSanta.remove
Remove(santa, u) ==
    [santa EXCEPT !.participants = [x \in (DOMAIN @) \ {u} |-> @[x]]]

\* SecretSanta.set_user_join_message_id (main.py:460)
SetUserJoinMessageId(santa, u, mid) ==
    [santa EXCEPT !.participants[u].join_message_id = mid]

\* SecretSanta.set_user_match_message_id (main.py:565)
SetUserMatchMessageId(santa, u, mid) ==
    [santa EXCEPT !.participants[u].match_message_id = mid]

\* SecretSanta.start (main.py:567) and the property SecretSanta.started
Start(santa) == [santa EXCEPT !.started = TRUE]

\* ------------------------------------------------------------- transport
\* how a call to the Bot API in the group ends: delivered, or an error whose
\* text has "bot was kicked from the", or "have no rights to send a message"
\* / "chat_write_forbidden", or any other error
GroupResults == IF faults THEN {"ok", "kicked", "muted", "other"} ELSE {"ok"}
\* callback_query.answer
AnswerResults == IF faults THEN {"ok", "muted", "other"} ELSE {"ok"}
\* a reply or an edit in the private chat of the user who has just written
\* to the bot or pressed a button there
PrivateResults == IF faults THEN {"ok", "other"} ELSE {"ok"}

\* ---------------------------------------------------------- the wrappers
\* a test that never finds the mark
Muted_Never(cd) == FALSE

\* `MUTED_KEY in context.chat_data` (main.py:147) and find_key(chat_data,
\* santa_chat_id, MUTED_KEY) (main.py:414)
Muted(cd) == cd.muted

\* bot_restricted_check, the except branch: the chat's data after error e
\* left the handler (fail_with_message then swallows what is re-raised)
Restricted(cd, e) ==
    IF e = "kicked" THEN [cd EXCEPT !.santa = <<>>]
    ELSE IF e = "muted" THEN [cd EXCEPT !.muted = TRUE]
    ELSE cd

\* a wrapper that drops what the handler returned
Stored_Dropped(cd, santa) == cd

\* get_secret_santa, after the handler returned a SecretSanta
Stored(cd, santa) == [cd EXCEPT !.santa = <<santa>>]

\* keyboards.secret_santa / update_secret_santa_message: the announcement
\* shows the "start match" button
ShowsStartButton(santa) ==
    /\ ~(GetParticipantsCount(santa) # 0 /\ santa.started)
    /\ GetParticipantsCount(santa) >= MinParticipants

\* the record of a handler run: the update it was given (op, room, user, and
\* for a start the users send_chat_action could not reach and whether the user
\* is a chat administrator for /cancel), the branch it ended in, and what it
\* sent (the users named in the "blocked" report, whether that report was
\* delivered, the calls of utilities.draft, the match messages as
\* <<addressee, named user>>; for a create or a join the id of the message it
\* sent, and for a join whether the handler run before it was a leave of the
\* same user from the same room)
Log(op, r, u, outcome) ==
    [op |-> op, room |-> r, user |-> u, outcome |-> outcome,
     unreachable |-> {}, report |-> {}, reported |-> FALSE,
     draft_calls |-> 0, sent |-> <<>>, admin |-> FALSE,
     mid |-> 0, rejoin |-> FALSE]

\* the handler run told the acting user nothing: bot_restricted_check returns
\* at once in a chat marked as muted (main.py:146-149; on_join_deeplink is not
\* under it and replies, main.py:414-417), on_cancel_command returns after a
\* debug log (main.py:658-660), and an exception of a handler registered with
\* answer_to_message=False is only logged (main.py:184-196)
Unanswered(l) ==
    \/ l.outcome = "muted" /\ l.op # "join"
    \/ l.outcome = "ignored"
    \/ l.outcome = "error"

\* the job is between two chats of its loop, or not running
JobIdle == [pc |-> "idle", chat |-> 0, muted |-> FALSE]

\* the dispatcher thread is between two updates
HandlerIdle == [pc |-> "idle", room |-> 0, user |-> 0, santa |-> <<>>]

BotInit ==
    /\ chat_data = [r \in Chats |-> [santa |-> <<>>, muted |-> FALSE]]
    /\ recently_started = [k \in Chats \X MsgIds |-> <<>>]
    /\ recently_left = [c \in Chats |-> 0]
    /\ mwt = [cache |-> [c \in Chats |-> <<>>], fetched |-> <<>>, returned |-> <<>>]
    /\ start_button = [r \in Chats |-> FALSE]
    /\ hung = FALSE
    /\ now = 1
    /\ migrated = {}
    /\ notices = [r \in Chats |-> 0]
    /\ job = JobIdle
    /\ hd = HandlerIdle
    /\ last = [op |-> "none", room |-> 1, user |-> 1, outcome |-> "none",
               unreachable |-> {}, report |-> {}, reported |-> FALSE,
               draft_calls |-> 0, sent |-> <<>>, admin |-> FALSE,
               mid |-> 0, rejoin |-> FALSE]

\* ------------------------------------------------ create_new_secret_santa
\* on_new_secret_santa_command / on_new_secret_santa_button
NewSecretSanta(r, u) ==
    /\ ~hung
    /\ LET cd == chat_data[r] IN
       IF Muted(cd) THEN
           /\ last' = Log("create", r, u, "muted")
           /\ UNCHANGED <<chat_data, start_button>>
       ELSE IF cd.santa # <<>> THEN
           \E g \in GroupResults :
               /\ chat_data' = [chat_data EXCEPT ![r] = Restricted(cd, g)]
               /\ last' = Log("create", r, u, "already_exists")
               /\ UNCHANGED start_button
       ELSE
           \E g \in GroupResults, mid \in MsgIds :
               IF g # "ok" THEN
                   /\ chat_data' = [chat_data EXCEPT ![r] = Restricted(cd, g)]
                   /\ last' = Log("create", r, u, "send_failed")
                   /\ UNCHANGED start_button
               ELSE
                   LET new_secret_santa == SecretSanta(r, u, mid, <<>>, 0, 0) IN
                   /\ chat_data' = [chat_data EXCEPT ![r] = Stored(cd, new_secret_santa)]
                   /\ start_button' = [start_button EXCEPT
                          ![r] = @ \/ ShowsStartButton(new_secret_santa)]
                   /\ last' = [Log("create", r, u, "created") EXCEPT !.mid = mid]
    \* a new announcement has had no expiry notice
    /\ notices' = IF last'.outcome = "created" THEN [notices EXCEPT ![r] = 0] ELSE notices
    /\ UNCHANGED <<dr, env, recently_started, recently_left, hung>>

\* a limit that lets one more user in
IsFull_OneMore(santa) ==
    max_participants # 0 /\ GetParticipantsCount(santa) > max_participants

\* main.py:438: a maximum is configured and the Secret Santa has reached it
IsFull(santa) ==
    max_participants # 0 /\ GetParticipantsCount(santa) >= max_participants

\* the handler run before this one was a leave of user u from room r
JustLeft(r, u) ==
    /\ last.op \in {"leave", "leave_private"}
    /\ last.outcome = "left"
    /\ last.room = r
    /\ last.user = u

\* ------------------------------------------------------- on_join_deeplink
JoinDeeplink(r, u) ==
    /\ ~hung
    /\ LET cd == chat_data[r] IN
       IF Muted(cd) THEN
           /\ last' = Log("join", r, u, "muted")
           /\ UNCHANGED <<chat_data, start_button>>
       ELSE IF cd.santa = <<>> THEN
           /\ last' = Log("join", r, u, "not_found")
           /\ UNCHANGED <<chat_data, start_button>>
       ELSE
           LET santa == FromDict(cd.santa[1]) IN
           IF IsFull(santa) THEN
               /\ last' = Log("join", r, u, "full")
               /\ UNCHANGED <<chat_data, start_button>>
           ELSE
               \E p \in PrivateResults, mid \in MsgIds, e \in GroupResults :
                   LET added == Add(santa, u)
                       joined == SetUserJoinMessageId(added, u, mid)
                   IN
                   IF p # "ok" THEN
                       /\ chat_data' = [chat_data EXCEPT ![r] = Stored(cd, added)]
                       /\ last' = Log("join", r, u, "reply_failed")
                       /\ UNCHANGED start_button
                   ELSE
                       /\ chat_data' = [chat_data EXCEPT ![r] = Stored(cd, joined)]
                       /\ start_button' = [start_button EXCEPT
                              ![r] = @ \/ (e = "ok" /\ ShowsStartButton(joined))]
                       /\ last' = [Log("join", r, u, "joined") EXCEPT
                              !.mid = mid, !.rejoin = JustLeft(r, u)]
    /\ UNCHANGED <<dr, env, notices, recently_started, recently_left, hung>>

\* -------------------------------------------------- on_leave_button_group
LeaveButtonGroup(r, u) ==
    /\ ~hung
    /\ LET cd == chat_data[r] IN
       IF Muted(cd) THEN
           /\ last' = Log("leave", r, u, "muted")
           /\ UNCHANGED <<chat_data, start_button>>
       ELSE IF cd.santa = <<>> THEN
           /\ last' = Log("leave", r, u, "error")
           /\ UNCHANGED <<chat_data, start_button>>
       ELSE
           LET santa == FromDict(cd.santa[1]) IN
           IF ~IsParticipant(santa, u) THEN
               \E a \in AnswerResults :
                   /\ chat_data' = [chat_data EXCEPT ![r] = Restricted(cd, a)]
                   /\ last' = Log("leave", r, u, "not_participant")
                   /\ UNCHANGED start_button
           ELSE
               \E e \in GroupResults, a \in AnswerResults, p \in PrivateResults :
                   LET removed == Remove(santa, u) IN
                   /\ start_button' = [start_button EXCEPT
                          ![r] = @ \/ (e = "ok" /\ ShowsStartButton(removed))]
                   \* an error of callback_query.answer or of the edit of the
                   \* private message leaves the handler before `return santa`:
                   \* nothing is stored, the removal is in chat_data only as far
                   \* as santa.participants is the stored dict itself
                   /\ chat_data' = [chat_data EXCEPT
                          ![r] = IF a = "ok" /\ p = "ok" THEN Stored(cd, removed)
                                 ELSE IF SharesParticipants(cd.santa[1])
                                 THEN Restricted([cd EXCEPT !.santa[1].participants =
                                                      removed.participants], a)
                                 ELSE Restricted(cd, a)]
                   /\ last' = Log("leave", r, u,
                                  IF a = "ok" /\ p = "ok" THEN "left" ELSE "left_failed")
    /\ UNCHANGED <<dr, env, notices, recently_started, recently_left, hung>>

\* ------------------------------------- private_chat_button / on_leave_button_private
\* user u has, in the private chat with the bot, a "You joined" message of
\* room r with its buttons: the one bound in the active Secret Santa, or one
\* of a started Secret Santa (those messages are never edited)
HasPrivateButtons(r, u) ==
    \/ /\ chat_data[r].santa # <<>>
       /\ u \in DOMAIN chat_data[r].santa[1].participants
       /\ chat_data[r].santa[1].participants[u].join_message_id # 0
    \/ \E mid \in MsgIds :
          /\ recently_started[<<r, mid>>] # <<>>
          /\ u \in DOMAIN recently_started[<<r, mid>>][1].participants
          /\ recently_started[<<r, mid>>][1].participants[u].join_message_id # 0

\* the "leave" button of a "You joined" message
LeaveButtonPrivate(r, u) ==
    /\ ~hung
    /\ HasPrivateButtons(r, u)
    /\ LET cd == chat_data[r] IN
       IF cd.santa = <<>> THEN
           \* find_santa gives None: "This chat's Secret Santa is no longer valid"
           /\ last' = Log("leave_private", r, u, "not_found")
           /\ UNCHANGED <<chat_data, start_button>>
       ELSE
           LET santa == FromDict(cd.santa[1]) IN
           IF ~IsParticipant(santa, u) THEN
               /\ last' = Log("leave_private", r, u, "not_participant")
               /\ UNCHANGED <<chat_data, start_button>>
           ELSE
               \* remove works on the participants dict chat_data holds
               \E e \in GroupResults, p \in PrivateResults :
                   LET removed == Remove(santa, u) IN
                   /\ start_button' = [start_button EXCEPT
                          ![r] = @ \/ (e = "ok" /\ ShowsStartButton(removed))]
                   /\ chat_data' = [chat_data EXCEPT ![r].santa =
                          IF SharesParticipants(cd.santa[1])
                          THEN <<[cd.santa[1] EXCEPT !.participants = removed.participants]>>
                          ELSE cd.santa]
                   /\ last' = Log("leave_private", r, u,
                                  IF p = "ok" THEN "left" ELSE "left_failed")
    /\ UNCHANGED <<dr, env, notices, recently_started, recently_left, hung>>

\* -------------------------------------------------------- on_match_button
\* the loop over matches (main.py:558-565): the first n messages went out and
\* their ids were bound with set_user_match_message_id
RECURSIVE Notified(_, _, _, _)
Notified(santa, matches, mids, n) ==
    IF n = 0 THEN santa
    ELSE SetUserMatchMessageId(Notified(santa, matches, mids, n - 1),
                               matches[n][1], mids[matches[n][1]])

\* the match messages of the first n turns of that loop, as <<addressee, user
\* named in the text>>
MatchMessages_NameAddressee(matches, n) ==
    [k \in 1..n |-> <<matches[k][1], matches[k][1]>>]

MatchMessages(matches, n) == [k \in 1..n |-> <<matches[k][1], matches[k][2]>>]

\* a start that leaves the started Secret Santa in the chat's data
Closed_StillActive(cd, started) == [cd EXCEPT !.santa = <<started>>]

\* main.py:570: the started Secret Santa is popped from the chat's data (and
\* on_match_button returns None, so get_secret_santa stores nothing)
Closed(cd, started) == [cd EXCEPT !.santa = <<>>]

\* main.py:535-578, entered with every participant reachable
MatchDraft(r, u, santa, unreachable) ==
    LET cd == chat_data[r]
        results == DraftResults(SortedSeq(DOMAIN santa.participants))
    IN
    IF results = {} THEN
        \* utilities.draft repeats its raffle for ever
        /\ hung' = TRUE
        /\ last' = [Log("start", r, u, "hung") EXCEPT
                      !.draft_calls = 1, !.unreachable = unreachable]
        /\ UNCHANGED <<chat_data, recently_started>>
    ELSE
        \E matches \in results :
            IF matches = <<>> THEN
                \* `if not matches`: the drafting error text
                \E g \in GroupResults :
                    /\ chat_data' = [chat_data EXCEPT ![r] = Restricted(cd, g)]
                    /\ last' = [Log("start", r, u, "draft_failed") EXCEPT
                           !.draft_calls = 1, !.unreachable = unreachable]
                    /\ UNCHANGED <<recently_started, hung>>
            ELSE
                \E mids \in [DOMAIN santa.participants -> MsgIds],
                   failed \in 0..Len(matches) :
                    IF failed # 0 THEN
                        \* bot.send_message raised for the failed-th pair; the
                        \* bindings made so far are in the shared participants
                        LET bound == Notified(santa, matches, mids, failed - 1) IN
                        /\ chat_data' = [chat_data EXCEPT ![r].santa =
                               IF SharesParticipants(cd.santa[1])
                               THEN <<[cd.santa[1] EXCEPT !.participants = bound.participants]>>
                               ELSE cd.santa]
                        /\ last' = [Log("start", r, u, "match_failed") EXCEPT
                               !.draft_calls = 1, !.unreachable = unreachable,
                               !.sent = MatchMessages(matches, failed - 1)]
                        /\ UNCHANGED <<recently_started, hung>>
                    ELSE
                        \E g \in GroupResults :
                            LET started == Start(Notified(santa, matches, mids, Len(matches))) IN
                            /\ chat_data' = [chat_data EXCEPT
                                   ![r] = Restricted(Closed(cd, started), g)]
                            \* save_recently_started_santa
                            /\ recently_started' = [recently_started EXCEPT
                                   ![<<r, started.santa_message_id>>] = <<started>>]
                            /\ last' = [Log("start", r, u, "started") EXCEPT
                                   !.draft_calls = 1, !.unreachable = unreachable,
                                   !.sent = MatchMessages(matches, Len(matches))]
                            /\ UNCHANGED hung

\* a check that looks at the first participant only
BlockedBy_FirstOnly(santa, unreachable) ==
    {x \in DOMAIN santa.participants :
        x \in unreachable /\ \A y \in DOMAIN santa.participants : x <= y}

\* main.py:515-526: the participants send_chat_action raised for
BlockedBy(santa, unreachable) == {x \in DOMAIN santa.participants : x \in unreachable}

MatchButton(r, u) ==
    /\ ~hung
    /\ start_button[r]
    /\ LET cd == chat_data[r] IN
       IF Muted(cd) THEN
           /\ last' = Log("start", r, u, "muted")
           /\ UNCHANGED <<chat_data, recently_started, hung>>
       ELSE IF cd.santa = <<>> THEN
           \* santa is None: santa.creator_id raises, fail_with_message logs it
           /\ last' = Log("start", r, u, "error")
           /\ UNCHANGED <<chat_data, recently_started, hung>>
       ELSE
           LET santa == FromDict(cd.santa[1]) IN
           IF ~IsCreator(santa, u) THEN
               \E a \in AnswerResults :
                   /\ chat_data' = [chat_data EXCEPT ![r] = Restricted(cd, a)]
                   /\ last' = Log("start", r, u, "not_authorized")
                   /\ UNCHANGED <<recently_started, hung>>
           ELSE
               \* the "Matching users..." message, then send_chat_action to each
               \E g \in GroupResults, unreachable \in SUBSET Users :
                   LET blocked_by == BlockedBy(santa, unreachable) IN
                   IF g # "ok" THEN
                       /\ chat_data' = [chat_data EXCEPT ![r] = Restricted(cd, g)]
                       /\ last' = [Log("start", r, u, "send_failed") EXCEPT
                              !.unreachable = unreachable]
                       /\ UNCHANGED <<recently_started, hung>>
                   ELSE IF blocked_by # {} THEN
                       \E g2 \in GroupResults :
                           /\ chat_data' = [chat_data EXCEPT ![r] = Restricted(cd, g2)]
                           /\ last' = [Log("start", r, u, "blocked") EXCEPT
                                  !.unreachable = unreachable,
                                  !.report = blocked_by,
                                  !.reported = (g2 = "ok")]
                           /\ UNCHANGED <<recently_started, hung>>
                   ELSE
                       MatchDraft(r, u, santa, unreachable)
    /\ UNCHANGED <<dr, env, notices, recently_left, start_button>>

\* ------------------------------------------------------- on_cancel_button
CancelButton(r, u) ==
    /\ ~hung
    /\ LET cd == chat_data[r] IN
       IF Muted(cd) THEN
           /\ last' = Log("cancel_button", r, u, "muted")
           /\ UNCHANGED chat_data
       ELSE IF cd.santa = <<>> THEN
           /\ last' = Log("cancel_button", r, u, "error")
           /\ UNCHANGED chat_data
       ELSE IF ~IsCreator(FromDict(cd.santa[1]), u) THEN
           \E a \in AnswerResults :
               /\ chat_data' = [chat_data EXCEPT ![r] = Restricted(cd, a)]
               /\ last' = Log("cancel_button", r, u, "not_authorized")
       ELSE
           \E g \in GroupResults :
               /\ chat_data' = [chat_data EXCEPT
                      ![r] = Restricted([cd EXCEPT !.santa = <<>>], g)]
               /\ last' = Log("cancel_button", r, u, "canceled")
    /\ UNCHANGED <<dr, env, notices, recently_started, recently_left, start_button, hung>>

\* ------------------------------------------------------ on_cancel_command
\* main.py:658: `not santa.creator_id != user_id and user_id not in admins`;
\* admin: the user is in the list get_admin_ids gives for the chat
CancelCommandRefused(santa, u, admin) == santa.user_id = u /\ ~admin

CancelCommand(r, u) ==
    /\ ~hung
    /\ LET cd == chat_data[r] IN
       IF Muted(cd) THEN
           /\ last' = Log("cancel_command", r, u, "muted")
           /\ UNCHANGED chat_data
       ELSE IF cd.santa = <<>> THEN
           \E g \in GroupResults :
               /\ chat_data' = [chat_data EXCEPT ![r] = Restricted(cd, g)]
               /\ last' = Log("cancel_command", r, u, "not_found")
       ELSE
           \E admin \in BOOLEAN :
               IF CancelCommandRefused(FromDict(cd.santa[1]), u, admin) THEN
                   /\ last' = [Log("cancel_command", r, u, "ignored") EXCEPT !.admin = admin]
                   /\ UNCHANGED chat_data
               ELSE
                   \E g \in GroupResults :
                       /\ chat_data' = [chat_data EXCEPT
                              ![r] = Restricted([cd EXCEPT !.santa = <<>>], g)]
                       /\ last' = [Log("cancel_command", r, u, "canceled") EXCEPT
                              !.admin = admin]
    /\ UNCHANGED <<dr, env, notices, recently_started, recently_left, start_button, hung>>

\* ----------------------------------------------- on_my_chat_member_update
\* in a group: the bot's new status is "left" (it left, or was removed from a
\* basic group), or "kicked" (it was removed from a supergroup), or the bot
\* was muted, or unmuted
MyChatMemberUpdate(r, change) ==
    /\ ~hung
    /\ IF change = "left" THEN
           /\ chat_data' = [chat_data EXCEPT ![r] = [santa |-> <<>>, muted |-> FALSE]]
           /\ recently_left' = [recently_left EXCEPT ![r] = now]
       ELSE IF change = "kicked" THEN
           \* the status is not ChatMember.LEFT and can_send_messages is None
           \* now; was_unmuted holds when it was False before
           \E was_restricted \in {FALSE, chat_data[r].muted} :
               /\ chat_data' = [chat_data EXCEPT ![r].muted = @ /\ ~was_restricted]
               /\ UNCHANGED recently_left
       ELSE IF change = "muted" THEN
           /\ chat_data' = [chat_data EXCEPT ![r].muted = TRUE]
           /\ UNCHANGED recently_left
       ELSE
           /\ chat_data' = [chat_data EXCEPT ![r].muted = FALSE]
           /\ UNCHANGED recently_left
    /\ last' = Log(change, r, 1, "done")
    /\ UNCHANGED <<dr, env, notices, recently_started, start_button, hung>>

\* ------------------------------------------------------ on_new_group_chat
NewGroupChat(r) ==
    /\ ~hung
    /\ \E unauthorized \in BOOLEAN :
          IF unauthorized THEN
              \* exit_unknown_groups is set and the user is not an admin of the
              \* bot: the bot leaves the chat
              /\ last' = Log("new_group", r, 1, "exited")
              /\ UNCHANGED recently_left
          ELSE
              /\ recently_left' = [recently_left EXCEPT ![r] = 0]
              /\ last' = Log("new_group", r, 1, "done")
    /\ UNCHANGED <<dr, env, notices, chat_data, recently_started, start_button, hung>>

Init ==
    /\ BotInit
    /\ faults = FALSE
    /\ max_participants = MaxParticipants
    /\ dr = DraftCall(<<>>)

\* ------------------------------------------------ on_supergroup_migration
\* the group exists: a group until it is migrated, its supergroup from then on
ChatExists(c) == IF c \in Rooms THEN c \notin migrated ELSE (c - NRooms) \in migrated

\* a new Secret Santa that forgets who had joined
Migrated_Empty(old_santa, new_chat_id, mid) ==
    [SecretSanta(new_chat_id, old_santa.user_id, 0, <<>>, 0, 0)
        EXCEPT !.santa_message_id = mid]

\* main.py:771-783: the new SecretSanta, bound to the message sent to the
\* supergroup
Migrated(old_santa, new_chat_id, mid) ==
    [SecretSanta(new_chat_id, old_santa.user_id, 0, old_santa.participants, 0, 0)
        EXCEPT !.santa_message_id = mid]

\* the update with migrate_to_chat_id, received for group r
SupergroupMigration(r) ==
    /\ ~hung
    /\ r \notin migrated
    /\ migrated' = migrated \cup {r}
    /\ LET cd == chat_data[r]
           new_chat_id == Supergroup(r)
       IN
       IF cd.santa = <<>> THEN
           /\ last' = Log("migrate", r, 1, "no_santa")
           /\ UNCHANGED <<chat_data, start_button, notices>>
       ELSE
           \E g \in GroupResults, mid \in MsgIds :
               LET old_santa == FromDict(cd.santa[1])
                   new_secret_santa == Migrated(old_santa, new_chat_id, mid)
               IN
               IF g # "ok" THEN
                   \* send_message raised after the pop; fail_with_message logs it
                   /\ chat_data' = [chat_data EXCEPT ![r].santa = <<>>]
                   /\ last' = Log("migrate", r, 1, "send_failed")
                   /\ UNCHANGED <<start_button, notices>>
               ELSE
                   \* the supergroup's chat_data is replaced as a whole
                   /\ chat_data' = [chat_data EXCEPT
                          ![r].santa = <<>>,
                          ![new_chat_id] = [santa |-> <<new_secret_santa>>, muted |-> FALSE]]
                   /\ start_button' = [start_button EXCEPT
                          ![new_chat_id] = @ \/ ShowsStartButton(new_secret_santa)]
                   /\ notices' = [notices EXCEPT ![new_chat_id] = 0]
                   /\ last' = [Log("migrate", r, 1, "migrated") EXCEPT !.mid = mid]
    /\ UNCHANGED <<dr, faults, mwt, max_participants, now, job, hd,
                   recently_started, recently_left, hung>>

\* the updates the dispatcher hands to the handlers
Next ==
    \/ \E r \in Rooms, u \in Users : NewSecretSanta(r, u)
    \/ \E r \in Rooms, u \in Users : JoinDeeplink(r, u)
    \/ \E r \in Rooms, u \in Users : LeaveButtonGroup(r, u)
    \/ \E r \in Rooms, u \in Users : LeaveButtonPrivate(r, u)
    \/ \E r \in Rooms, u \in Users : MatchButton(r, u)
    \/ \E r \in Rooms, u \in Users : CancelButton(r, u)
    \/ \E r \in Rooms, u \in Users : CancelCommand(r, u)

\* the bot in groups it stays in, may write to, and whose messages are delivered
Spec == Init /\ [][Next]_vars

\* the same with a failing group transport and a changing membership
InitFaults ==
    /\ BotInit
    /\ faults = TRUE
    /\ max_participants = MaxParticipants
    /\ dr = DraftCall(<<>>)

NextFaults ==
    \/ Next
    \/ \E r \in Rooms, change \in {"left", "kicked", "muted", "unmuted"} :
          MyChatMemberUpdate(r, change)
    \/ \E r \in Rooms : NewGroupChat(r)

SpecFaults == InitFaults /\ [][NextFaults]_vars

\* the same environment; Start and /cancel are followed only in a room marked
\* as muted
NextRestricted ==
    \/ \E r \in Rooms, u \in Users :
          \/ NewSecretSanta(r, u)
          \/ JoinDeeplink(r, u)
          \/ LeaveButtonGroup(r, u)
          \/ CancelButton(r, u)
          \/ chat_data[r].muted /\ MatchButton(r, u)
          \/ chat_data[r].muted /\ CancelCommand(r, u)
          \/ LeaveButtonPrivate(r, u)
    \/ \E r \in Rooms, change \in {"left", "kicked", "muted", "unmuted"} :
          MyChatMemberUpdate(r, change)
    \/ \E r \in Rooms : NewGroupChat(r)

SpecRestricted == InitFaults /\ [][NextRestricted]_vars

\* ------------------------------------------- groups that become supergroups
\* the values of config.santa.max_participants tried: not set, and a limit
\* below the number of users
MaxParticipantsTried == {0, MaxParticipants - 1}

InitMigrate ==
    /\ BotInit
    /\ faults = FALSE
    /\ max_participants \in MaxParticipantsTried
    /\ dr = DraftCall(<<>>)

\* the updates of groups and supergroups that exist, and of private chats,
\* that create, fill, empty and cancel a Secret Santa
NextMigrate ==
    \/ \E c \in Chats, u \in Users : ChatExists(c) /\ NewSecretSanta(c, u)
    \/ \E c \in Chats, u \in Users : JoinDeeplink(c, u)
    \/ \E c \in Chats, u \in Users : ChatExists(c) /\ LeaveButtonGroup(c, u)
    \/ \E c \in Chats, u \in Users : LeaveButtonPrivate(c, u)
    \/ \E c \in Chats, u \in Users : ChatExists(c) /\ CancelButton(c, u)
    \/ \E r \in Rooms : SupergroupMigration(r)

SpecMigrate == InitMigrate /\ [][NextMigrate]_vars

\* the same updates with a group transport that may fail
SpecMigrateFaults == InitFaults /\ [][NextMigrate]_vars

\* ------------------------------------------- the dispatcher and the job queue
\* Updater(workers=1) and no handler is run_async: the dispatcher thread takes
\* the next update only when the handler of the previous one has returned.
\* The jobs run in the job queue's own thread, beside the dispatcher's.
DispatcherIdle == hd.pc = "idle"

\* on_join_deeplink up to find_santa (main.py:414-442): the handler holds the
\* SecretSanta it has loaded, or has replied and returned
JoinLoad(r, u) ==
    /\ ~hung
    /\ DispatcherIdle
    /\ LET cd == chat_data[r] IN
       IF Muted(cd) THEN
           /\ last' = Log("join", r, u, "muted")
           /\ UNCHANGED hd
       ELSE IF cd.santa = <<>> THEN
           /\ last' = Log("join", r, u, "not_found")
           /\ UNCHANGED hd
       ELSE IF IsFull(FromDict(cd.santa[1])) THEN
           /\ last' = Log("join", r, u, "full")
           /\ UNCHANGED hd
       ELSE
           /\ hd' = [pc |-> "join", room |-> r, user |-> u,
                     santa |-> <<FromDict(cd.santa[1])>>]
           /\ UNCHANGED last
    /\ UNCHANGED <<dr, chat_data, recently_started, recently_left, start_button,
                   hung, faults, mwt, max_participants, now, migrated, job, notices>>

\* on_join_deeplink from santa.add on (main.py:444-462): what was loaded, with
\* the user added, is written over whatever the chat's data hold by now
JoinStore ==
    /\ hd.pc = "join"
    /\ \E mid \in MsgIds :
          LET r == hd.room
              u == hd.user
              joined == SetUserJoinMessageId(Add(hd.santa[1], u), u, mid)
          IN
          /\ chat_data' = [chat_data EXCEPT ![r] = Stored(chat_data[r], joined)]
          /\ start_button' = [start_button EXCEPT ![r] = @ \/ ShowsStartButton(joined)]
          /\ last' = [Log("join", r, u, "joined") EXCEPT !.mid = mid]
    /\ hd' = HandlerIdle
    /\ UNCHANGED <<dr, recently_started, recently_left, hung, faults, mwt,
                   max_participants, now, migrated, job, notices>>

\* get_secret_santa around on_leave_button_group, up to the load
\* (main.py:219-222 and 469-473)
LeaveLoad(r, u) ==
    /\ ~hung
    /\ DispatcherIdle
    /\ LET cd == chat_data[r] IN
       IF Muted(cd) THEN
           /\ last' = Log("leave", r, u, "muted")
           /\ UNCHANGED hd
       ELSE IF cd.santa = <<>> THEN
           /\ last' = Log("leave", r, u, "error")
           /\ UNCHANGED hd
       ELSE IF ~IsParticipant(FromDict(cd.santa[1]), u) THEN
           /\ last' = Log("leave", r, u, "not_participant")
           /\ UNCHANGED hd
       ELSE
           /\ hd' = [pc |-> "leave", room |-> r, user |-> u,
                     santa |-> <<FromDict(cd.santa[1])>>]
           /\ UNCHANGED last
    /\ UNCHANGED <<dr, chat_data, recently_started, recently_left, start_button,
                   hung, faults, mwt, max_participants, now, migrated, job, notices>>

\* on_leave_button_group from santa.remove on, then the decorator's store
\* (main.py:476-486 and 224-226): the calls to Telegram lie between the load
\* and this store
LeaveStore ==
    /\ hd.pc = "leave"
    /\ LET r == hd.room
           u == hd.user
           removed == Remove(hd.santa[1], u)
       IN
       /\ chat_data' = [chat_data EXCEPT ![r] = Stored(chat_data[r], removed)]
       /\ start_button' = [start_button EXCEPT ![r] = @ \/ ShowsStartButton(removed)]
       /\ last' = Log("leave", r, u, "left")
    /\ hd' = HandlerIdle
    /\ UNCHANGED <<dr, recently_started, recently_left, hung, faults, mwt,
                   max_participants, now, migrated, job, notices>>

\* time passes
Tick ==
    /\ now < MaxTime
    /\ now' = now + 1
    /\ UNCHANGED <<dr, chat_data, recently_started, recently_left, start_button,
                   hung, faults, mwt, max_participants, migrated, job, hd, notices, last>>

\* main.py:990-998: the chats bot_data_cleanup pops from the recently left
ChatIdsToPop ==
    {c \in Chats : recently_left[c] # 0 /\ ~(now - recently_left[c] <= WEEK_4)}

\* the job bot_data_cleanup, as far as the recently left chats go
BotDataCleanup ==
    /\ recently_left' = [c \in Chats |-> IF c \in ChatIdsToPop THEN 0 ELSE recently_left[c]]
    /\ last' = Log("cleanup", 1, 1, "done")
    /\ UNCHANGED <<dr, chat_data, recently_started, start_button, hung, env, notices>>

\* the groups the bot is added to, is removed from, is muted and unmuted in,
\* with the Secret Santas created and joined there, while time passes and the
\* cleanup job runs
NextMembership ==
    \/ \E r \in Rooms, u \in Users : NewSecretSanta(r, u)
    \/ \E r \in Rooms, u \in Users : JoinDeeplink(r, u)
    \/ \E r \in Rooms, change \in {"left", "kicked", "muted", "unmuted"} :
          MyChatMemberUpdate(r, change)
    \/ \E r \in Rooms : NewGroupChat(r)
    \/ Tick
    \/ BotDataCleanup

SpecMembership == Init /\ [][NextMembership]_vars

\* ------------------------------------------------------------ mwt.MWT
\* what bot.get_chat_administrators may give: the ids of a chat's admins
AdminLists == {{1}, {1, 2}}

\* a test that also expires an entry as old as the timeout
TimedOut_AtTimeout(v, t) == (t - v[2]) >= MwtTimeout

\* mwt.py:45: the cached value v, a pair of result and time, is too old at t
TimedOut(v, t) == (t - v[2]) > MwtTimeout

\* get_admin_ids(bot, c) behind MWT: mwt.py:36-52 around main.py:106-107
GetAdminIds(c) ==
    LET t == now
        hit == mwt.cache[c] # <<>> /\ ~TimedOut(mwt.cache[c], t)
    IN
    /\ IF hit THEN
           \* v = cache[key]
           /\ mwt' = [mwt EXCEPT !.fetched = <<>>, !.returned = <<mwt.cache[c][1]>>]
           /\ last' = Log("get_admin_ids", c, 1, "cached")
       ELSE
           \* KeyError, raised by the dict or by the test of the age
           \E raised \in BOOLEAN, admins \in AdminLists :
               IF raised THEN
                   \* bot.get_chat_administrators raised: nothing is assigned
                   /\ mwt' = [mwt EXCEPT !.fetched = <<>>, !.returned = <<>>]
                   /\ last' = Log("get_admin_ids", c, 1, "raised")
               ELSE
                   /\ mwt' = [cache |-> [mwt.cache EXCEPT ![c] = <<admins, t>>],
                              fetched |-> <<admins>>, returned |-> <<admins>>]
                   /\ last' = Log("get_admin_ids", c, 1, "fetched")
    /\ UNCHANGED <<dr, chat_data, recently_started, recently_left, start_button, hung,
                   faults, max_participants, now, migrated, job, hd, notices>>

\* the calls of get_admin_ids for the chats, while time passes
NextMwt ==
    \/ \E c \in Chats : GetAdminIds(c)
    \/ Tick

SpecMwt == Init /\ [][NextMwt]_vars

\* main.py:968-971: the Secret Santa is older than the timeout
Expired(santa) == ~(now - santa.created_on <= Timeout)

\* a pop that gives no default for a missing key
PopActive_NoDefault(cd) ==
    [cd |-> [cd EXCEPT !.santa = <<>>], raised |-> cd.santa = <<>>]

\* chat_data.pop(ACTIVE_SECRET_SANTA_KEY, None) (main.py:979): the chat's data
\* without the Secret Santa, and whether the call raised
PopActive(cd) ==
    [cd |-> [cd EXCEPT !.santa = <<>>], raised |-> FALSE]

\* close_old_secret_santas, one chat of its loop up to the test of the age
\* (main.py:962-973)
SweepCheck(c) ==
    /\ job.pc \in {"idle", "raised"}
    /\ chat_data[c].santa # <<>>
    /\ IF Expired(FromDict(chat_data[c].santa[1]))
       THEN job' = [pc |-> "expired", chat |-> c, muted |-> chat_data[c].muted]
       ELSE job' = job
    /\ UNCHANGED <<dr, chat_data, recently_started, recently_left, start_button,
                   hung, faults, mwt, max_participants, now, migrated, hd, notices, last>>

\* close_old_secret_santas, the rest of the loop's body (main.py:973-979): the
\* notice goes out unless the chat was marked as muted, then whatever Secret
\* Santa the chat holds by now is popped
SweepPop ==
    /\ job.pc = "expired"
    /\ LET c == job.chat
           popped == PopActive(chat_data[c])
       IN
       /\ notices' = IF job.muted THEN notices
                     ELSE [notices EXCEPT ![c] = Min(@ + 1, MaxNotices)]
       /\ chat_data' = [chat_data EXCEPT ![c] = popped.cd]
       \* an exception ends the job's run (fail_with_message_job logs it)
       /\ job' = IF popped.raised THEN [JobIdle EXCEPT !.pc = "raised"] ELSE JobIdle
       /\ last' = Log("sweep", c, 1,
                      IF popped.raised THEN "raised"
                      ELSE IF chat_data[c].santa = <<>> THEN "missing"
                      ELSE "expired")
    /\ UNCHANGED <<dr, recently_started, recently_left, start_button, hung,
                   faults, mwt, max_participants, now, migrated, hd>>

InitJobs ==
    /\ BotInit
    /\ faults = FALSE
    /\ max_participants = MaxParticipants
    /\ dr = DraftCall(<<>>)

NextJobs ==
    \/ \E r \in Rooms, u \in Users :
          \/ DispatcherIdle /\ NewSecretSanta(r, u)
          \/ JoinLoad(r, u)
          \/ LeaveLoad(r, u)
          \/ DispatcherIdle /\ CancelButton(r, u)
    \/ JoinStore
    \/ LeaveStore
    \/ Tick
    \/ \E c \in Rooms : SweepCheck(c)
    \/ SweepPop

SpecJobs == InitJobs /\ [][NextJobs]_vars

\* ------------------------------------- close_old_secret_santas, a whole run
\* the job after the body of its loop for chat c: the next chat of
\* dispatcher.chat_data.items(), or the end of the run
NextChat(c) ==
    IF job.todo \ {c} = {} THEN JobIdle
    ELSE [pc |-> "loop", chat |-> 0, muted |-> FALSE, todo |-> job.todo \ {c}]

\* the job queue calls the job (main.py:1065): the loop of main.py:962 begins
RunStart ==
    /\ job.pc = "idle"
    /\ job' = [pc |-> "loop", chat |-> 0, muted |-> FALSE, todo |-> Chats]
    /\ UNCHANGED <<dr, chat_data, recently_started, recently_left, start_button,
                   hung, faults, mwt, max_participants, now, migrated, hd, notices, last>>

\* main.py:962-964: the loop comes to chat c and tests for the key
RunTest(c) ==
    /\ job.pc = "loop"
    /\ c \in job.todo
    /\ job' = IF chat_data[c].santa = <<>> THEN NextChat(c)
              ELSE [job EXCEPT !.pc = "found", !.chat = c]
    /\ UNCHANGED <<dr, chat_data, recently_started, recently_left, start_button,
                   hung, faults, mwt, max_participants, now, migrated, hd, notices, last>>

\* main.py:966-973: chat_data[ACTIVE_SECRET_SANTA_KEY] is read (a KeyError if
\* the key has been popped since the test; nothing in the loop catches it, so
\* it ends the run in fail_with_message_job), then the age is tested
RunRead ==
    /\ job.pc = "found"
    /\ LET c == job.chat IN
       IF chat_data[c].santa = <<>> THEN
           /\ job' = JobIdle
           /\ last' = Log("sweep", c, 1, "raised")
       ELSE IF ~Expired(FromDict(chat_data[c].santa[1])) THEN
           /\ job' = NextChat(c)
           /\ UNCHANGED last
       ELSE
           /\ job' = [job EXCEPT !.pc = "expired", !.muted = chat_data[c].muted]
           /\ UNCHANGED last
    /\ UNCHANGED <<dr, chat_data, recently_started, recently_left, start_button,
                   hung, faults, mwt, max_participants, now, migrated, hd, notices>>

\* main.py:973-979 within a run: the notice (its errors are caught in
\* secret_santa_expired), the pop, and on with the loop
RunPop ==
    /\ job.pc = "expired"
    /\ LET c == job.chat
           popped == PopActive(chat_data[c])
       IN
       /\ notices' = IF job.muted THEN notices
                     ELSE [notices EXCEPT ![c] = Min(@ + 1, MaxNotices)]
       /\ chat_data' = [chat_data EXCEPT ![c] = popped.cd]
       /\ job' = IF popped.raised THEN JobIdle ELSE NextChat(c)
       /\ last' = Log("sweep", c, 1,
                      IF popped.raised THEN "raised"
                      ELSE IF chat_data[c].santa = <<>> THEN "missing"
                      ELSE "expired")
    /\ UNCHANGED <<dr, recently_started, recently_left, start_button, hung,
                   faults, mwt, max_participants, now, migrated, hd>>

\* the bot in two groups; a run of the job takes no time on the scale of the
\* timeout, and the dispatcher thread handles updates while it runs
NextSweep ==
    \/ \E c \in Chats, u \in Users :
          \/ NewSecretSanta(c, u)
          \/ CancelButton(c, u)
    \/ job.pc = "idle" /\ Tick
    \/ RunStart
    \/ \E c \in Chats : RunTest(c)
    \/ RunRead
    \/ RunPop

SpecSweep == InitJobs /\ [][NextSweep]_vars

\* ------------------------------------------------ the draft specification
DraftNext ==
    \/ DraftSort
    \/ DraftRaffle
    \/ DraftReturn
    \/ \E x \in DraftIds : DraftPick(x)
    \/ \E x \in DraftIds : DraftRepick(x)
    \/ DraftMatch

\* a call of draft on any list of distinct ids, the bot at rest
DraftInit ==
    /\ BotInit
    /\ faults = FALSE
    /\ max_participants = MaxParticipants
    /\ dr \in {DraftCall(items) : items \in DraftInputs}

SpecDraft == DraftInit /\ [][DraftNext]_vars

\* the i-th item of the current raffle picks the item after it (the first one
\* for the last) at its first random.choice
DraftPickNext(i) ==
    /\ dr.i = i
    /\ dr.i <= Len(dr.items)
    /\ dr.invalid = 0
    /\ DraftPick(dr.items[(i % Len(dr.items)) + 1])

\* the thread running draft keeps running, and the random choices are fair:
\* random.choice draws uniformly, so a pick that is possible again and again
\* is made at some time
DraftFairness ==
    /\ WF_vars(DraftSort)
    /\ WF_vars(DraftRaffle)
    /\ WF_vars(DraftReturn)
    /\ WF_vars(DraftMatch)
    /\ WF_vars(\E x \in DraftIds : DraftPick(x))
    /\ WF_vars(\E x \in DraftIds : x # dr.picked /\ DraftRepick(x))
    /\ \A i \in 1..MaxDraftLen : SF_vars(DraftPickNext(i))

SpecDraftFair == SpecDraft /\ DraftFairness

\* ------------------------------------------- the draft, one call at a time
\* a call of utilities.draft from its first line to its return
DraftWhole ==
    /\ dr.pc = "call"
    /\ \E matches \in DraftResults(dr.input) :
          dr' = [dr EXCEPT !.pc = "return", !.items = Sort(dr.input), !.pairs = matches]
    /\ UNCHANGED botvars

\* a call of draft on any list of up to MaxCallLen distinct ids
CallInit ==
    /\ BotInit
    /\ faults = FALSE
    /\ max_participants = MaxParticipants
    /\ dr \in {DraftCall(items) :
                 items \in UNION {DistinctSeqs(1..MaxCallLen, n) : n \in 0..MaxCallLen}}

SpecCall == CallInit /\ [][DraftWhole]_vars

\* the stepwise draft returns exactly the results of DraftResults
DraftReturnsAResult == dr.pc = "return" => dr.pairs \in DraftResults(dr.input)

\* ---------------------------------------------------------------- C1
Gifters(pairs, id) == {k \in DOMAIN pairs : pairs[k][1] = id}
Receivers(pairs, id) == {k \in DOMAIN pairs : pairs[k][2] = id}

\* a list of pairs over ids in which every id gifts once, receives once, and
\* nobody gifts themselves
IsDerangement(pairs, ids) ==
    /\ Len(pairs) = Cardinality(ids)
    /\ \A id \in ids : Cardinality(Gifters(pairs, id)) = 1
    /\ \A id \in ids : Cardinality(Receivers(pairs, id)) = 1
    /\ \A k \in DOMAIN pairs : pairs[k][1] # pairs[k][2]

\* C1: whenever draft returns on a list of N >= 2 distinct ids it returns
\* exactly N (gifter, receiver) pairs, every id once as gifter and once as
\* receiver, and no pair with gifter = receiver.
C1_DraftReturnsDerangement ==
    (dr.pc = "return" /\ Len(dr.input) >= 2)
        => IsDerangement(dr.pairs, Range(dr.input))

\* draft has returned on three ids given out of order
C1_Witness ==
    /\ dr.pc = "return"
    /\ Len(dr.input) = 3
    /\ dr.input # dr.items

\* ---------------------------------------------------------------- C2
\* C2: for every list of N >= 2 distinct ids, under fair random choices draft
\* eventually returns a pairing (it has no failing exit and does not re-run
\* the raffle forever).
C2_DraftEventuallyReturns ==
    (Len(dr.input) >= 2) ~> (dr.pc = "return" /\ Len(dr.pairs) = Len(dr.input))

\* draft has returned after at least one raffle had to be repeated
C2_Witness ==
    /\ dr.pc = "return"
    /\ Len(dr.input) >= 2
    /\ dr.raffles >= 2

\* ------------------------------------------------- the start of a match
HasSanta(r) == chat_data[r].santa # <<>>

ActiveSanta(r) == chat_data[r].santa[1]

Participants(r) == DOMAIN ActiveSanta(r).participants

\* the step is a run of on_match_button for room r, pressed by the creator of
\* the room's active Secret Santa
CreatorStarts(r) ==
    /\ last'.op = "start"
    /\ last'.room = r
    /\ HasSanta(r)
    /\ last'.user = ActiveSanta(r).user_id

\* the step leaves the active Secret Santa of room r as it was stored
SantaUnchanged(r) == chat_data'[r].santa = chat_data[r].santa

\* ---------------------------------------------------------------- C3
\* C3: a Start that does not complete, for whatever reason (a delivery failure
\* while the match messages are sent included), leaves the room's persisted
\* session identical to the one before it: still active and open, the same
\* participants, no match message bound.
C3_StartAllOrNothing ==
    [][\A r \in Rooms :
          (last'.op = "start" /\ last'.room = r /\ HasSanta(r)
             /\ last'.outcome # "started")
          => SantaUnchanged(r)]_vars

\* ---------------------------------------------------------------- C4
\* C4: a Start by the creator while at least one participant is unreachable
\* reports exactly the unreachable participants, does not call draft, sends
\* no match message, and leaves the session in the active store, open, with
\* the participants it had.
C4_UnreachableBlocksStart ==
    [][\A r \in Rooms :
          (CreatorStarts(r) /\ Participants(r) \cap last'.unreachable # {})
          => /\ last'.outcome = "blocked"
             /\ last'.reported
             /\ last'.report = Participants(r) \cap last'.unreachable
             /\ last'.draft_calls = 0
             /\ last'.sent = <<>>
             /\ SantaUnchanged(r)
             /\ ~ActiveSanta(r).started]_vars

\* a Start over two participants was blocked by one of them, a user who did not
\* join being unreachable as well
C4_Witness ==
    /\ last.op = "start"
    /\ last.outcome = "blocked"
    /\ Cardinality(last.report) = 1
    /\ Cardinality(last.unreachable) = 2
    /\ HasSanta(last.room)
    /\ Cardinality(Participants(last.room)) = 2

\* ---------------------------------------------------------------- C5
\* C5: after a successful Start on a session with participants P exactly |P|
\* match messages were sent: each participant got exactly one, it names a
\* user of P other than the addressee, and each participant is named in
\* exactly one message.
C5_MatchMessagesAreADerangement ==
    [][\A r \in Rooms :
          (last'.op = "start" /\ last'.room = r /\ last'.outcome = "started")
          => /\ HasSanta(r)
             /\ IsDerangement(last'.sent, Participants(r))
             /\ \A k \in DOMAIN last'.sent : last'.sent[k][2] \in Participants(r)]_vars

\* a Start over three participants went through
C5_Witness ==
    /\ last.op = "start"
    /\ last.outcome = "started"
    /\ Len(last.sent) = 3
    /\ ~HasSanta(last.room)

\* ---------------------------------------------------------------- C6
\* C6: a Start by the creator on a session with an odd number of participants
\* is rejected: session and participants stay as they were, no pairing is
\* drawn and no match message is sent.
C6_OddCountRejected ==
    [][\A r \in Rooms :
          (CreatorStarts(r) /\ Cardinality(Participants(r)) % 2 = 1)
          => /\ SantaUnchanged(r)
             /\ last'.draft_calls = 0
             /\ last'.sent = <<>>]_vars

\* ---------------------------------------------------------------- C7
\* C7: a Start by the creator on a session with fewer participants than
\* config.santa.min_participants is rejected visibly to the actor, changes
\* nothing in the store and does not call draft.
C7_BelowMinimumRejected ==
    [][\A r \in Rooms :
          (CreatorStarts(r) /\ Cardinality(Participants(r)) < MinParticipants)
          => /\ chat_data' = chat_data
             /\ recently_started' = recently_started
             /\ last'.draft_calls = 0
             /\ ~hung']_vars

\* ---------------------------------------------------------------- C8
\* C8: a Start by anyone but the session's creator is rejected as not
\* authorized: the session stays in the active store unchanged, draft is not
\* called and no private message is sent.
C8_OnlyCreatorStarts ==
    [][\A r \in Rooms :
          (last'.op = "start" /\ last'.room = r /\ HasSanta(r)
             /\ last'.user # ActiveSanta(r).user_id)
          => /\ last'.outcome = "not_authorized"
             /\ SantaUnchanged(r)
             /\ recently_started' = recently_started
             /\ last'.draft_calls = 0
             /\ last'.sent = <<>>]_vars

\* a participant who is not the creator pressed "start match" on a session
\* that could be started
C8_Witness ==
    /\ last.op = "start"
    /\ last.outcome = "not_authorized"
    /\ HasSanta(last.room)
    /\ last.user # ActiveSanta(last.room).user_id
    /\ last.user \in Participants(last.room)
    /\ Cardinality(Participants(last.room)) >= MinParticipants

\* ---------------------------------------------------------------- C9
\* C9: /cancel removes the room's active session if and only if the actor is
\* its creator or a chat administrator; when it does not, the session stays in
\* the store unchanged.
C9_CancelCommandGuard ==
    [][\A r \in Rooms :
          (last'.op = "cancel_command" /\ last'.room = r /\ HasSanta(r))
          => /\ (chat_data'[r].santa = <<>>)
                   <=> (last'.user = ActiveSanta(r).user_id \/ last'.admin)
             /\ (chat_data'[r].santa # <<>> => SantaUnchanged(r))]_vars

\* --------------------------------------------------------------- C10
\* the step is a cancel of room r's session by someone entitled to it: the
\* cancel button pressed by the creator, or /cancel sent by the creator or by
\* an administrator
AuthorizedCancel(r) ==
    /\ last'.room = r
    /\ HasSanta(r)
    /\ \/ last'.op = "cancel_button" /\ last'.user = ActiveSanta(r).user_id
       \/ last'.op = "cancel_command"
            /\ (last'.user = ActiveSanta(r).user_id \/ last'.admin)

\* C10: after an authorized Cancel the room has no active session, and a
\* Create that follows in the room succeeds and gives a fresh open session
\* without participants.
C10_CancelThenCreate ==
    [][\A r \in Rooms :
          /\ AuthorizedCancel(r) => chat_data'[r].santa = <<>>
          /\ (last'.op = "create" /\ last'.room = r /\ ~HasSanta(r))
                => /\ chat_data'[r].santa # <<>>
                   /\ chat_data'[r].santa[1].participants = <<>>
                   /\ ~chat_data'[r].santa[1].started
                   /\ chat_data'[r].santa[1].user_id = last'.user]_vars

\* --------------------------------------------------------------- C11
\* C11: a Create in a room without an active session stores a new open
\* session whose creator is the actor; a Create in a room that has one reports
\* that it exists and leaves the stored session as it was.
C11_CreateOrAlreadyExists ==
    [][\A r \in Rooms :
          (last'.op = "create" /\ last'.room = r)
          => IF HasSanta(r)
             THEN /\ last'.outcome = "already_exists"
                  /\ SantaUnchanged(r)
             ELSE /\ last'.outcome = "created"
                  /\ chat_data'[r].santa # <<>>
                  /\ chat_data'[r].santa[1].user_id = last'.user
                  /\ chat_data'[r].santa[1].chat_id = r
                  /\ chat_data'[r].santa[1].participants = <<>>
                  /\ ~chat_data'[r].santa[1].started]_vars

\* a user who is not the creator asked for a new Secret Santa in a room whose
\* active one has participants
C11_Witness ==
    /\ last.op = "create"
    /\ last.outcome = "already_exists"
    /\ HasSanta(last.room)
    /\ ActiveSanta(last.room).user_id # last.user
    /\ Cardinality(Participants(last.room)) >= 2

\* --------------------------------------------------------------- C12
\* C12: Join is idempotent: when a user who is a participant joins again, the
\* participants of the stored session after the second Join are the ones
\* before it, in size and in every entry (name and message bindings).
C12_JoinIdempotent ==
    [][\A r \in Rooms :
          (last'.op = "join" /\ last'.room = r /\ HasSanta(r)
             /\ last'.user \in Participants(r))
          => /\ chat_data'[r].santa # <<>>
             /\ chat_data'[r].santa[1].participants = ActiveSanta(r).participants]_vars

\* --------------------------------------------------------------- C13
LeaveOps == {"leave", "leave_private"}

\* C13: a Leave followed by a Join of the same user makes the user a
\* participant again with a fresh entry: the Leave removed the whole entry,
\* and the entry after the Join has no match message bound and, as join
\* message, the one this Join sent.
C13_LeaveThenJoinIsFresh ==
    [][\A r \in Rooms :
          /\ (last'.op \in LeaveOps /\ last'.room = r /\ last'.outcome = "left")
                => /\ chat_data'[r].santa # <<>>
                   /\ last'.user \notin DOMAIN chat_data'[r].santa[1].participants
          /\ (JustLeft(r, last'.user) /\ last'.op = "join" /\ last'.room = r
                /\ HasSanta(r))
                => /\ last'.outcome = "joined"
                   /\ last'.mid # 0
                   /\ chat_data'[r].santa # <<>>
                   /\ last'.user \in DOMAIN chat_data'[r].santa[1].participants
                   /\ chat_data'[r].santa[1].participants[last'.user]
                        = [name |-> last'.user, match_message_id |-> 0,
                           join_message_id |-> last'.mid]
                   /\ \A x \in Participants(r) :
                        chat_data'[r].santa[1].participants[x]
                          = ActiveSanta(r).participants[x]]_vars

\* a user joined again right after leaving a session in which another
\* participant holds a match message
C13_Witness ==
    /\ last.op = "join"
    /\ last.outcome = "joined"
    /\ last.rejoin
    /\ HasSanta(last.room)
    /\ \E x \in Participants(last.room) :
          ActiveSanta(last.room).participants[x].match_message_id # 0

\* --------------------------------------------------------------- C14
\* C14: a Leave (the group's leave button or the private one) by a user who
\* is not a participant of the room's active session is reported as not
\* participating and leaves the stored session as it was.
C14_LeaveOfNonParticipant ==
    [][\A r \in Rooms :
          (last'.op \in LeaveOps /\ last'.room = r /\ HasSanta(r)
             /\ last'.user \notin Participants(r))
          => /\ last'.outcome = "not_participant"
             /\ SantaUnchanged(r)]_vars

\* the private leave button was pressed by a user who is not in the room's
\* active session, which has participants
C14_Witness ==
    /\ last.op = "leave_private"
    /\ last.outcome = "not_participant"
    /\ HasSanta(last.room)
    /\ Participants(last.room) # {}

\* --------------------------------------------------------------- C15
\* C15: with a maximum configured, whatever creates, joins, leaves and
\* migrations happen, no active session has more participants than the
\* maximum; a Join that finds the session at the maximum is rejected and
\* changes nothing.
C15_MaxParticipants ==
    [][\A c \in Chats :
          /\ (max_participants # 0 /\ chat_data'[c].santa # <<>>)
                => Cardinality(DOMAIN chat_data'[c].santa[1].participants)
                     <= max_participants
          /\ (last'.op = "join" /\ last'.room = c /\ HasSanta(c)
                /\ max_participants # 0
                /\ Cardinality(Participants(c)) >= max_participants)
                => /\ last'.outcome = "full"
                   /\ chat_data' = chat_data]_vars

\* a user who is not a participant was turned away from the full Secret Santa
\* of a supergroup
C15_Witness ==
    /\ last.op = "join"
    /\ last.outcome = "full"
    /\ last.room \notin Rooms
    /\ HasSanta(last.room)
    /\ last.user \notin Participants(last.room)
    /\ Cardinality(Participants(last.room)) = max_participants

\* --------------------------------------------------------------- C18
\* C18: when a group with an active session of participants P is migrated to
\* a supergroup, afterwards the supergroup holds a session with exactly the
\* participants P and the same creator, bound to the announcement just sent
\* there, and the old group holds none.
C18_MigrationMovesSession ==
    [][\A r \in Rooms :
          (last'.op = "migrate" /\ last'.room = r /\ HasSanta(r))
             => /\ last'.outcome = "migrated"
                /\ chat_data'[r].santa = <<>>
                /\ chat_data'[Supergroup(r)].santa # <<>>
                /\ LET new == chat_data'[Supergroup(r)].santa[1]
                       old == ActiveSanta(r)
                   IN  /\ new.participants = old.participants
                       /\ new.user_id = old.user_id
                       /\ new.chat_id = Supergroup(r)
                       /\ last'.mid \in MsgIds
                       /\ new.santa_message_id = last'.mid]_vars

\* a session with every user in it has been moved to the supergroup
C18_Witness ==
    /\ last.op = "migrate"
    /\ last.outcome = "migrated"
    /\ ~HasSanta(last.room)
    /\ HasSanta(Supergroup(last.room))
    /\ Participants(Supergroup(last.room)) = Users

\* ------------------------------------------------------------ the sweeper
\* this step is the sweeper's removal from chat c
SweeperPops(c) == job.pc = "expired" /\ job'.pc = "idle" /\ job.chat = c

\* --------------------------------------------------------------- C16
\* C16: a tick of the sweeper removes a session if and only if the time since
\* its creation is strictly greater than the timeout: the sweeper goes on to
\* the removal exactly for the sessions it finds older than the timeout, and a
\* session it removes is older than the timeout; a session at or below the
\* timeout is left as it is.
C16_SweeperRemovesIffExpired ==
    [][\A c \in Rooms :
          /\ (job.pc = "idle" /\ job' # job /\ job'.chat = c)
                => (HasSanta(c) /\ now - ActiveSanta(c).created_on > Timeout)
          /\ (SweeperPops(c) /\ HasSanta(c))
                => now - ActiveSanta(c).created_on > Timeout
          /\ (job' # job /\ HasSanta(c) /\ now - ActiveSanta(c).created_on <= Timeout)
                => chat_data'[c] = chat_data[c]]_vars

\* --------------------------------------------------------------- C17
\* C17: for a session the sweeper expires the expiry notice goes out exactly
\* once, and from then on the room has no active session (until one is
\* created).
C17_ExpiredOnceAndGone ==
    \A c \in Rooms :
        /\ notices[c] <= 1
        /\ notices[c] >= 1 => ~HasSanta(c)

\* --------------------------------------------------------------- C19
\* C19: no update is lost between joins: the Join that stores its result
\* keeps every participant the room's session holds at that moment, entry by
\* entry, and adds the actor.
C19_NoLostJoin ==
    [][\A c \in Rooms :
          (hd.pc = "join" /\ hd.room = c /\ hd'.pc = "idle" /\ HasSanta(c))
             => /\ HasSanta(c)'
                /\ DOMAIN chat_data'[c].santa[1].participants
                      = Participants(c) \cup {hd.user}
                /\ \A x \in Participants(c) \ {hd.user} :
                      chat_data'[c].santa[1].participants[x]
                         = ActiveSanta(c).participants[x]]_vars

\* every user has joined, one Join after the other, and all are participants
C19_Witness ==
    /\ last.op = "join"
    /\ last.outcome = "joined"
    /\ hd.pc = "idle"
    /\ HasSanta(last.room)
    /\ Participants(last.room) = Users
    /\ \A x \in Users : ActiveSanta(last.room).participants[x].join_message_id # 0

\* --------------------------------------------------------------- C20
\* C20: reads and writes of a room's session are serialized: when the sweeper
\* (or a cancel) has removed the session, a Join or Leave that was in flight
\* does not make it reappear; a room without a session gets one only from a
\* create.
C20_RemovedSessionStaysRemoved ==
    [][\A c \in Rooms :
          (~HasSanta(c) /\ HasSanta(c)')
             => /\ hd.pc = "idle"
                /\ last'.op = "create"
                /\ last'.outcome = "created"]_vars

\* --------------------------------------------------------------- C21
\* C21: when a cancel has removed the room's session after the sweeper read
\* it and before the sweeper removes it, the sweeper's removal raises no
\* error, the job goes on, and the room has no active session.
C21_SweeperToleratesCancel ==
    [][\A c \in Rooms :
          (job.pc = "expired" /\ job.chat = c /\ job' # job
             /\ ~HasSanta(c)
             /\ last.op = "cancel_button" /\ last.outcome = "canceled" /\ last.room = c)
             => /\ last'.op = "sweep"
                /\ last'.outcome = "missing"
                /\ job'.pc = "idle"
                /\ ~HasSanta(c)']_vars

\* the sweeper has come to its removal and found the session gone, the last
\* handler run having been the cancel that removed it
C21_Witness ==
    /\ last.op = "sweep"
    /\ last.outcome = "missing"
    /\ job.pc = "idle"
    /\ ~HasSanta(last.room)
    /\ notices[last.room] >= 1

\* --------------------------------------------------------------- C22
\* the sessions of room r that are open or started: the active one, and the
\* started ones kept in bot_data
NonTerminal(r) ==
    (IF HasSanta(r) THEN {<<"active", ActiveSanta(r).santa_message_id>>} ELSE {})
        \cup {<<"started", m>> : m \in {x \in MsgIds : recently_started[<<r, x>>] # <<>>}}

\* C22: in every reachable state a room has at most one session that is open
\* or started, counting the active store and the archive of started sessions:
\* no session is created in a room whose started session is still there.
C22_OneLiveSessionPerRoom ==
    \A r \in Rooms : Cardinality(NonTerminal(r)) <= 1

\* --------------------------------------------------------------- C23
\* C23: the drafting of a Start is bounded: after at most 12 failed raffles
\* the Start reports a drafting error and ends with the session unchanged; no
\* Start, whatever the number of participants, stays inside the drafting step
\* for ever.
C23_DraftingIsBounded ==
    /\ ~hung
    /\ last.op = "start" => last.outcome # "hung"

\* --------------------------------------------------------------- C24
\* C24: draft called with fewer than 2 ids ends in an invalid-input error: it
\* does not return a pairing, not even the empty one (and does not run for
\* ever).
C24_FewerThanTwoIsRefused ==
    Len(dr.input) < 2 => dr.pc # "return"

\* --------------------------------------------------------------- C25
\* C25: for an input of exactly two distinct ids a and b, whatever draft
\* returns is the 2-cycle a -> b, b -> a.
C25_TwoIdsGiveTheTwoCycle ==
    (dr.pc = "return" /\ Len(dr.input) = 2)
        => /\ Len(dr.pairs) = 2
           /\ Range(dr.pairs) = {<<dr.input[1], dr.input[2]>>, <<dr.input[2], dr.input[1]>>}

\* draft has returned on two ids that were given in descending order
C25_Witness ==
    /\ dr.pc = "return"
    /\ Len(dr.input) = 2
    /\ dr.input[1] > dr.input[2]
    /\ Len(dr.pairs) = 2

\* --------------------------------------------------------------- C26
\* the receiver of gifter g in a list of pairs
ReceiverOf(pairs, g) == pairs[CHOOSE k \in DOMAIN pairs : pairs[k][1] = g][2]

\* the ids visited by following gifter -> receiver from the ids of seen,
\* x being the one reached last
RECURSIVE Visited(_, _, _)
Visited(pairs, x, seen) ==
    IF ReceiverOf(pairs, x) \in seen THEN seen
    ELSE Visited(pairs, ReceiverOf(pairs, x), seen \cup {ReceiverOf(pairs, x)})

\* C26: the pairing that is drawn is a single cycle through all the ids:
\* following gifter -> receiver from any id visits every id before coming
\* back (for 4 ids a 4-cycle, never two 2-cycles).
C26_PairingIsOneCycle ==
    (dr.pc = "return" /\ Len(dr.input) >= 2)
        => \A x \in Range(dr.input) : Visited(dr.pairs, x, {x}) = Range(dr.input)

\* --------------------------------------------------------------- C27
\* C27: updated_on is refreshed by every mutation: after a step that changes
\* the participants of a room's session, the session's updated_on is the
\* time of that step.
C27_UpdatedOnFollowsMutations ==
    [][\A c \in Rooms :
          (HasSanta(c) /\ HasSanta(c)'
             /\ chat_data'[c].santa[1].participants # ActiveSanta(c).participants)
             => chat_data'[c].santa[1].updated_on = now]_vars

\* --------------------------------------------------------------- C28
\* C28: the creator counts as a participant of the session they create: the
\* session a Create stores has its creator as its one participant, so that
\* two Joins of other users make 3 participants.
C28_CreatorParticipates ==
    [][\A r \in Rooms :
          (~HasSanta(r) /\ HasSanta(r)' /\ last'.op = "create")
             => DOMAIN chat_data'[r].santa[1].participants
                   = {chat_data'[r].santa[1].user_id}]_vars

\* --------------------------------------------------------------- C29
\* C29: a Leave (group button), a Start or a Cancel (button) in a room without
\* an active session ends with the not-found outcome, not with an exception
\* caught as a generic error, and changes nothing in the store.
C29_NoSessionIsNotFound ==
    [][\A r \in Rooms :
          (last'.op \in {"leave", "start", "cancel_button"}
             /\ last'.room = r /\ last' # last
             /\ ~HasSanta(r) /\ ~chat_data[r].muted)
             => /\ last'.outcome = "not_found"
                /\ chat_data' = chat_data
                /\ recently_started' = recently_started]_vars

\* --------------------------------------------------------------- C30
\* the branches in which the action asked for is turned down
Rejections ==
    {"muted", "already_exists", "not_found", "full", "not_participant",
     "not_authorized", "blocked", "ignored", "error"}

\* C30: every rejected action sends an explanation back to the acting user;
\* none, a refused /cancel and a group action in a muted room included, is
\* rejected without any notification.
C30_RejectionsAreExplained ==
    last.outcome \in Rejections => ~Unanswered(last)

\* --------------------------------------------------------------- C31
\* the Secret Santa of room r with announcement m is in the archive of the
\* started ones
IsArchived(r, m) == recently_started[<<r, m>>] # <<>>

Overdue(c) == HasSanta(c) /\ now - ActiveSanta(c).created_on > Timeout

\* C32: within one run of the sweeper the rooms are expired independently:
\* whatever happens while one room is handled (its notice fails, or handling
\* it raises), when the run ends no room is left with an overdue session.
C32_RunExpiresEveryRoom ==
    [][(job.pc # "idle" /\ job'.pc = "idle")
          => \A c \in Chats : ~Overdue(c)']_vars

\* --------------------------------------------------------------- C33
\* C33: a participant who uses the group leave button is absent from the
\* stored session afterwards, also when the re-render of the announcement,
\* the answer to the button or the edit of the private join message fails;
\* the other participants of a session that is still stored are the ones it
\* had.
C33_FailedEditStillLeaves ==
    [][\A r \in Rooms, u \in Users :
          (last'.op = "leave" /\ last'.room = r /\ last'.user = u
             /\ last'.outcome \in {"left", "left_failed"})
          => /\ HasSanta(r)
             /\ u \in Participants(r)
             /\ HasSanta(r)' => Participants(r)' = Participants(r) \ {u}]_vars

\* a leave whose handler ended in an error, in a room that keeps its
\* session, without the user who left and with another participant
C33_Witness ==
    /\ last.op = "leave"
    /\ last.outcome = "left_failed"
    /\ HasSanta(last.room)
    /\ ~chat_data[last.room].muted
    /\ last.user \notin Participants(last.room)
    /\ Participants(last.room) # {}

\* --------------------------------------------------------------- C34
\* C34: over the life of a session each participant gets at most one match
\* message, however many times Start is attempted: a Start sends a match
\* message only to a participant of the session who has none bound from an
\* earlier attempt.
C34_OneMatchMessagePerSession ==
    [][\A r \in Rooms :
          (last'.op = "start" /\ last'.room = r /\ HasSanta(r))
          => \A k \in DOMAIN last'.sent :
                ActiveSanta(r).participants[last'.sent[k][1]].match_message_id = 0]_vars

\* --------------------------------------------------------------- C35
\* C35: a migration of a room with an active session never loses the session:
\* whether or not the announcement can be sent to the new room, afterwards the
\* session is stored under exactly one of the old and the new room id, with
\* the participants it had.
C35_MigrationKeepsSession ==
    [][\A r \in Rooms :
          (last'.op = "migrate" /\ last'.room = r /\ HasSanta(r))
          => \E c \in {r, Supergroup(r)} :
                /\ HasSanta(c)'
                /\ ActiveSanta(c)'.participants = ActiveSanta(r).participants
                /\ \A d \in {r, Supergroup(r)} \ {c} : ~HasSanta(d)']_vars

\* --------------------------------------------------------------- C36
\* the updates of room r the bot does not follow while r is marked as muted
MutedOps == {"create", "join", "leave", "start", "cancel_button", "cancel_command"}

\* C36: while a room is marked as muted, Create, group Leave, Start, the
\* cancel button and /cancel for it change nothing in the store and a Join into
\* its session is rejected; as long as the mark stays, the room's session is
\* not created, started or removed and gets no new participant; only an update
\* saying that the bot was unmuted, or has left, clears the mark.
C36_MutedRoomIsFrozen ==
    [][\A r \in Rooms :
          chat_data[r].muted
          => /\ (last'.room = r /\ last'.op \in MutedOps)
                   => /\ last'.outcome = "muted"
                      /\ chat_data' = chat_data
                      /\ recently_started' = recently_started
             /\ chat_data'[r].muted
                   => /\ HasSanta(r)' = HasSanta(r)
                      /\ HasSanta(r) => /\ Participants(r)' \subseteq Participants(r)
                                        /\ ~ActiveSanta(r)'.started
                      /\ \A m \in MsgIds :
                            recently_started'[<<r, m>>] = recently_started[<<r, m>>]
             /\ ~chat_data'[r].muted
                   => /\ last'.room = r
                      /\ last'.op \in {"unmuted", "left", "kicked"}]_vars

\* the creator's Start was not followed in a muted room whose session has
\* enough participants to be started
C36_Witness ==
    /\ last.op = "start"
    /\ last.outcome = "muted"
    /\ chat_data[last.room].muted
    /\ HasSanta(last.room)
    /\ last.user = ActiveSanta(last.room).user_id
    /\ Cardinality(Participants(last.room)) >= MinParticipants

\* --------------------------------------------------------------- C37
\* C37: when the bot is removed from a room, the room's active session and
\* muted mark are removed and the room is recorded as recently left with the
\* time of the removal; the record stays as it is until the bot is removed
\* again, is added to the room again, or the cleanup job runs more than four
\* weeks after the removal.
C37_RemovalIsRecorded ==
    [][\A r \in Rooms :
          /\ (now' = now /\ last'.room = r /\ last'.op \in {"left", "kicked"})
                => /\ ~HasSanta(r)'
                   /\ ~chat_data'[r].muted
                   /\ recently_left'[r] = now
          /\ (recently_left[r] # 0 /\ recently_left'[r] # recently_left[r])
                => \/ last'.room = r /\ last'.op \in {"left", "kicked"} /\ recently_left'[r] = now
                   \/ last'.room = r /\ last'.op = "new_group" /\ recently_left'[r] = 0
                   \/ /\ last'.op = "cleanup"
                      /\ recently_left'[r] = 0
                      /\ now - recently_left[r] > WEEK_4]_vars

\* --------------------------------------------------------------- C38
\* the call finds an entry for chat c that is no older than the timeout
Fresh(c) == mwt.cache[c] # <<>> /\ now - mwt.cache[c][2] <= MwtTimeout

\* C38: a call of get_admin_ids for a room made no later than the timeout
\* after the cached fetch returns the cached list, asks the transport nothing
\* and leaves the cache as it is; a call made later, or with nothing cached,
\* always asks the transport, and the list it gets is returned and replaces the
\* room's entry, with the time of the call.
C38_AdminListMemoizedOneHour ==
    [][\A c \in Chats :
          (now' = now /\ last'.op = "get_admin_ids" /\ last'.room = c)
          => IF Fresh(c)
             THEN /\ last'.outcome = "cached"
                  /\ mwt'.fetched = <<>>
                  /\ mwt'.returned = <<mwt.cache[c][1]>>
                  /\ mwt'.cache = mwt.cache
             ELSE /\ last'.outcome \in {"fetched", "raised"}
                  /\ last'.outcome = "fetched"
                        => /\ mwt'.fetched # <<>>
                           /\ mwt'.returned = mwt'.fetched
                           /\ mwt'.cache = [mwt.cache EXCEPT
                                  ![c] = <<mwt'.fetched[1], now>>]
                  /\ last'.outcome = "raised"
                        => mwt'.returned = <<>> /\ mwt'.cache = mwt.cache]_vars

\* a call exactly one timeout after the fetch was answered from the cache
C38_Witness ==
    /\ last.op = "get_admin_ids"
    /\ last.outcome = "cached"
    /\ mwt.cache[last.room] # <<>>
    /\ now - mwt.cache[last.room][2] = MwtTimeout
    /\ mwt.returned = <<mwt.cache[last.room][1]>>

====
